---------------------------- MODULE Spec2Model ----------------------------
(***************************************************************************)
(* Model of anomalib.utils.loggers.get_logger                              *)
(* (src/anomalib/utils/loggers/__init__.py).                               *)
(*                                                                         *)
(* get_logger reads config.project.logger and either returns False,        *)
(* constructs an AnomalibTensorBoardLogger, creates <path>/logs and        *)
(* constructs an AnomalibWandbLogger, or raises UnknownLogger.             *)
(*                                                                         *)
(* Python strings are TLA+ strings; Python values of other types are       *)
(* records [t |-> type name, v |-> str(value)].  The filesystem is the set *)
(* of directories that exist, each named by its normalised path.           *)
(***************************************************************************)
EXTENDS Integers, Sequences, FiniteSets, TLC

VARIABLES
    dirs,        \* filesystem: the directories that exist (normalised paths)
    writable,    \* environment: may the process create directories
    broken,      \* environment: the backends whose constructor raises
    config,      \* the config of the last get_logger call
    result,      \* how the last call ended: the handle returned or the exception raised
    events,      \* the side-effecting calls the last get_logger call made, in order
    dirsBefore,  \* the filesystem at entry of the last call
    created,     \* history: the directories that get_logger calls have created
    wandbPaths   \* history: project.path of every call with project.logger == "wandb"

vars == <<dirs, writable, broken, config, result, events, dirsBefore,
          created, wandbPaths>>

---------------------------------------------------------------------------
(* Python values that project.logger can hold *)

PyNone == [t |-> "NoneType", v |-> "None"]

PyBool(b) == [t |-> "bool", v |-> IF b THEN "True" ELSE "False"]

PyStr(s) == [t |-> "str", v |-> s]

\* Python == between values of type NoneType, bool and str
PyEq(a, b) == a.t = b.t /\ a.v = b.v

\* Python `x in [..]`: some element equals x
PyIn(x, list) == \E i \in 1..Len(list) : PyEq(x, list[i])

\* str(x), as an f-string formats a value
Str(x) == x.v

\* repr of a str: single quotes around it
ReprStr(s) == "'" \o s \o "'"

RECURSIVE CommaJoin(_)
CommaJoin(list) ==
    IF Len(list) = 0 THEN ""
    ELSE IF Len(list) = 1 THEN ReprStr(list[1])
    ELSE ReprStr(list[1]) \o ", " \o CommaJoin(Tail(list))

\* str of a list of str, as an f-string formats it
StrList(list) == "[" \o CommaJoin(list) \o "]"

---------------------------------------------------------------------------
(* Paths *)

StartsWithSep(s) == Len(s) > 0 /\ SubSeq(s, 1, 1) = "/"

EndsWithSep(s) == Len(s) > 0 /\ SubSeq(s, Len(s), Len(s)) = "/"

\* os.path.join(a, b) on posix
Join(a, b) ==
    IF StartsWithSep(b) THEN b
    ELSE IF a = "" \/ EndsWithSep(a) THEN a \o b
    ELSE a \o "/" \o b

\* the components of a path: the non-empty pieces between separators
RECURSIVE Parts(_)
Parts(s) ==
    IF s = "" THEN <<>>
    ELSE IF StartsWithSep(s) THEN Parts(Tail(s))
    ELSE LET n == CHOOSE k \in 1..Len(s) :
                      /\ \A j \in 1..k : SubSeq(s, j, j) # "/"
                      /\ (k = Len(s) \/ SubSeq(s, k + 1, k + 1) = "/")
         IN  <<SubSeq(s, 1, n)>> \o Parts(SubSeq(s, n + 1, Len(s)))

RECURSIVE Glue(_)
Glue(parts) ==
    IF Len(parts) = 0 THEN ""
    ELSE IF Len(parts) = 1 THEN parts[1]
    ELSE parts[1] \o "/" \o Glue(Tail(parts))

\* the directory a path names: repeated and trailing separators do not matter
Norm(s) == (IF StartsWithSep(s) THEN "/" ELSE "") \o Glue(Parts(s))

\* the directory itself and the directories above it (the root and the
\* working directory always exist and are left out)
SelfAndAncestors(s) ==
    LET p == Parts(s)
        root == IF StartsWithSep(s) THEN "/" ELSE ""
    IN  {root \o Glue(SubSeq(p, 1, k)) : k \in 1..Len(p)}

\* os.makedirs(name) without exist_ok: an existing directory is an error
Makedirs_NoExistOk(fs, name, canWrite) ==
    IF Norm(name) \in fs THEN [exc |-> "FileExistsError", dirs |-> fs]
    ELSE IF canWrite THEN [exc |-> "", dirs |-> fs \cup SelfAndAncestors(name)]
    ELSE [exc |-> "PermissionError", dirs |-> fs]

\* os.makedirs(name, exist_ok=True): [exc, dirs], exc = "" when it returns.
\* An existing directory is accepted whatever error mkdir reports; otherwise
\* the missing directories, name's ancestors included, are created, or the
\* error of mkdir is raised.
Makedirs(fs, name, canWrite) ==
    IF Norm(name) \in fs THEN [exc |-> "", dirs |-> fs]
    ELSE IF canWrite THEN [exc |-> "", dirs |-> fs \cup SelfAndAncestors(name)]
    ELSE [exc |-> "PermissionError", dirs |-> fs]

---------------------------------------------------------------------------
(* Exceptions *)

\* class UnknownLogger(Exception); the builtin classes it is compared with
Mro(cls) ==
    CASE cls = "UnknownLogger"   -> {"UnknownLogger", "Exception"}
      [] cls = "ValueError"      -> {"ValueError", "Exception"}
      [] cls = "PermissionError" -> {"PermissionError", "OSError", "Exception"}
      [] cls = "FileExistsError" -> {"FileExistsError", "OSError", "Exception"}
      [] OTHER                   -> {cls, "Exception"}

IsInstance(exc, cls) == cls \in Mro(exc)

---------------------------------------------------------------------------
(* get_logger *)

\* the list as it was before the wandb backend was added
AVAILABLE_LOGGERS_Stale == <<"tensorboard">>

AVAILABLE_LOGGERS == <<"tensorboard", "wandb">>

Returned(variant, project, name, save_dir) ==
    [status |-> "returned", variant |-> variant, project |-> project,
     name |-> name, save_dir |-> save_dir, exc |-> "", msg |-> ""]

Raised(exc, msg) ==
    [status |-> "raised", variant |-> "", project |-> "",
     name |-> "", save_dir |-> "", exc |-> exc, msg |-> msg]

NoResult ==
    [status |-> "none", variant |-> "", project |-> "",
     name |-> "", save_dir |-> "", exc |-> "", msg |-> ""]

\* the value False that get_logger returns for "no logging"
Disabled == Returned("Disabled", "", "", "")

\* AnomalibTensorBoardLogger(name=, save_dir=)
AnomalibTensorBoardLogger(name, save_dir, bad) ==
    IF "tensorboard" \in bad THEN Raised("BackendError", "")
    ELSE Returned("TensorboardLogger", "", name, save_dir)

\* AnomalibWandbLogger(project=, name=, save_dir=)
AnomalibWandbLogger(project, name, save_dir, bad) ==
    IF "wandb" \in bad THEN Raised("BackendError", "")
    ELSE Returned("ExperimentLogger", project, name, save_dir)

\* config.project.logger is None
IsDisabledValue_OnlyNone(logger) == PyEq(logger, PyNone)

\* config.project.logger in [None, False]
IsDisabledValue(logger) == PyIn(logger, <<PyNone, PyBool(FALSE)>>)

\* a comparison that ignores the case of the first letter
IsTensorboard_AnyCase(logger) ==
    PyEq(logger, PyStr("tensorboard")) \/ PyEq(logger, PyStr("Tensorboard"))

IsTensorboard(logger) == PyEq(logger, PyStr("tensorboard"))

IsWandb(logger) == PyEq(logger, PyStr("wandb"))

\* f"{config.dataset.category}_{config.model.name}"
RunName_Underscore(cfg) == cfg.category \o "_" \o cfg.model

\* f"{config.dataset.category} {config.model.name}"
RunName(cfg) == cfg.category \o " " \o cfg.model

\* the backquote character of the message text, which a TLA+ string cannot
\* hold: the message is modelled with "~" in its place
Backquote == "~"

Quoted(s) == Backquote \o s \o Backquote

\* the message of the UnknownLogger raised
UnknownLoggerMessage(logger) ==
    "Unknown logger type: " \o Str(logger) \o ". "
    \o "Available loggers are: " \o StrList(AVAILABLE_LOGGERS) \o ".\n"
    \o "To enable the logger, set " \o Quoted("project.logger") \o " to " \o Quoted("true")
    \o " or use one of available loggers in config.yaml\n"
    \o "To disable the logger, set " \o Quoted("project.logger") \o " to " \o Quoted("false") \o "."

\* a tensorboard branch that creates its log directory as the wandb branch does
TensorboardBranch_Makedirs(cfg, fs, canWrite, bad) ==
    LET logdir == Join(cfg.path, "logs")
        made == Makedirs(fs, logdir, canWrite)
    IN  IF made.exc # ""
        THEN [dirs   |-> made.dirs,
              result |-> Raised(made.exc, ""),
              events |-> <<"makedirs">>]
        ELSE [dirs   |-> made.dirs,
              result |-> AnomalibTensorBoardLogger("Tensorboard Logs", logdir, bad),
              events |-> <<"makedirs", "AnomalibTensorBoardLogger">>]

\* the tensorboard branch: [dirs, result, events]
TensorboardBranch(cfg, fs, canWrite, bad) ==
    [dirs   |-> fs,
     result |-> AnomalibTensorBoardLogger("Tensorboard Logs", Join(cfg.path, "logs"), bad),
     events |-> <<"AnomalibTensorBoardLogger">>]

\* a wandb branch that constructs the backend before it creates the directory
WandbBranch_CtorFirst(cfg, fs, canWrite, bad) ==
    LET wandb_logdir == Join(cfg.path, "logs")
        built == AnomalibWandbLogger(cfg.dsname, RunName(cfg), wandb_logdir, bad)
        made == Makedirs(fs, wandb_logdir, canWrite)
    IN  IF built.status = "raised"
        THEN [dirs   |-> fs,
              result |-> built,
              events |-> <<"AnomalibWandbLogger">>]
        ELSE IF made.exc # ""
        THEN [dirs   |-> made.dirs,
              result |-> Raised(made.exc, ""),
              events |-> <<"AnomalibWandbLogger", "makedirs">>]
        ELSE [dirs   |-> made.dirs,
              result |-> built,
              events |-> <<"AnomalibWandbLogger", "makedirs">>]

\* the wandb branch: [dirs, result, events]
WandbBranch(cfg, fs, canWrite, bad) ==
    LET wandb_logdir == Join(cfg.path, "logs")
        made == Makedirs(fs, wandb_logdir, canWrite)
    IN  IF made.exc # ""
        THEN [dirs   |-> made.dirs,
              result |-> Raised(made.exc, ""),
              events |-> <<"makedirs">>]
        ELSE [dirs   |-> made.dirs,
              result |-> AnomalibWandbLogger(cfg.dsname, RunName(cfg), wandb_logdir, bad),
              events |-> <<"makedirs", "AnomalibWandbLogger">>]

\* a body that creates the log directory before it looks at project.logger
Body_MakedirsFirst(cfg, fs, canWrite, bad) ==
    LET made == Makedirs(fs, Join(cfg.path, "logs"), canWrite)
    IN  IF made.exc # ""
        THEN [dirs |-> made.dirs, result |-> Raised(made.exc, ""), events |-> <<"makedirs">>]
        ELSE IF IsDisabledValue(cfg.logger)
        THEN [dirs |-> made.dirs, result |-> Disabled, events |-> <<"makedirs">>]
        ELSE IF IsTensorboard(cfg.logger)
        THEN [dirs   |-> made.dirs,
              result |-> AnomalibTensorBoardLogger("Tensorboard Logs", Join(cfg.path, "logs"), bad),
              events |-> <<"makedirs", "AnomalibTensorBoardLogger">>]
        ELSE IF IsWandb(cfg.logger)
        THEN [dirs   |-> made.dirs,
              result |-> AnomalibWandbLogger(cfg.dsname, RunName(cfg), Join(cfg.path, "logs"), bad),
              events |-> <<"makedirs", "AnomalibWandbLogger">>]
        ELSE [dirs   |-> made.dirs,
              result |-> Raised("UnknownLogger", UnknownLoggerMessage(cfg.logger)),
              events |-> <<"makedirs">>]

\* the body of get_logger: [dirs, result, events]
Body(cfg, fs, canWrite, bad) ==
    IF IsDisabledValue(cfg.logger)
    THEN [dirs |-> fs, result |-> Disabled, events |-> <<>>]
    ELSE IF IsTensorboard(cfg.logger) THEN TensorboardBranch(cfg, fs, canWrite, bad)
    ELSE IF IsWandb(cfg.logger) THEN WandbBranch(cfg, fs, canWrite, bad)
    ELSE [dirs   |-> fs,
          result |-> Raised("UnknownLogger", UnknownLoggerMessage(cfg.logger)),
          events |-> <<>>]

---------------------------------------------------------------------------
(* Inputs *)

\* how many "logs" components a project.path itself may end in
MaxNest == 1

RECURSIVE Nested(_)
Nested(k) == IF k = 0 THEN "/r" ELSE Nested(k - 1) \o "/logs"

LoggerValues ==
    {PyNone, PyBool(FALSE), PyBool(TRUE),
     PyStr("tensorboard"), PyStr("wandb"), PyStr("csv"), PyStr("Tensorboard")}

Paths == {Nested(k) : k \in 0..MaxNest} \cup {"/r/", "out"}

DatasetNames == {"mvtec", "btech"}

Categories == {"bottle"}

ModelNames == {"padim", "stfpm"}

Configs ==
    [logger : LoggerValues, path : Paths, dsname : DatasetNames,
     category : Categories, model : ModelNames]

\* the configs of the runs that keep the history of all calls
SeqConfigs == {c \in Configs : c.dsname = "mvtec" /\ c.model = "padim"}

Backends == {"tensorboard", "wandb"}

\* the filesystems a run may start from
InitialDirs == {{}, {"/r"}, {"/r", "/r/logs"}, {"out", "out/logs"}}

NoConfig ==
    [logger |-> PyNone, path |-> "", dsname |-> "", category |-> "", model |-> ""]

---------------------------------------------------------------------------
(* State machine *)

Init ==
    /\ dirs \in InitialDirs
    /\ writable \in BOOLEAN
    /\ broken = {}
    /\ config = NoConfig
    /\ result = NoResult
    /\ events = <<>>
    /\ dirsBefore = dirs
    /\ created = {}
    /\ wandbPaths = {}

\* one call get_logger(cfg)
get_logger(cfg) ==
    LET r == Body(cfg, dirs, writable, broken)
    IN  /\ dirs' = r.dirs
        /\ result' = r.result
        /\ events' = r.events
        /\ config' = cfg
        /\ dirsBefore' = dirs
        /\ UNCHANGED <<writable, broken>>

\* the environment between calls: permissions change
SetWritable ==
    /\ writable' = ~writable
    /\ config' = NoConfig
    /\ result' = NoResult
    /\ events' = <<>>
    /\ dirsBefore' = dirs
    /\ UNCHANGED <<dirs, broken, created, wandbPaths>>

\* the environment between calls: a backend starts or stops failing
SetBackend(b) ==
    /\ broken' = IF b \in broken THEN broken \ {b} ELSE broken \cup {b}
    /\ config' = NoConfig
    /\ result' = NoResult
    /\ events' = <<>>
    /\ dirsBefore' = dirs
    /\ UNCHANGED <<dirs, writable, created, wandbPaths>>

\* a call, looked at on its own
Call == \E cfg \in Configs : get_logger(cfg) /\ UNCHANGED <<created, wandbPaths>>

\* a call in a sequence of calls whose history is kept
SeqCall ==
    \E cfg \in SeqConfigs :
        /\ get_logger(cfg)
        /\ created' = created \cup (dirs' \ dirs)
        /\ wandbPaths' = IF IsWandb(cfg.logger)
                         THEN wandbPaths \cup {Norm(cfg.path)}
                         ELSE wandbPaths

Environment == SetWritable \/ \E b \in Backends : SetBackend(b)

Next == Call \/ Environment

Spec == Init /\ [][Next]_vars

NextSeq == SeqCall \/ Environment

SpecSeq == Init /\ [][NextSeq]_vars

---------------------------------------------------------------------------
(* Properties *)

\* a get_logger call has just ended
Called == result.status # "none"

\* whether sub occurs in s
Contains(s, sub) ==
    \E i \in 1..(Len(s) - Len(sub) + 1) : SubSeq(s, i, i + Len(sub) - 1) = sub

\* the directory named logs inside the directory that path p names
LogsUnder(p) ==
    IF Norm(p) \in {"", "/"} THEN Norm(p) \o "logs" ELSE Norm(p) \o "/logs"

\* the save_dir a handle holds names logs inside project.path; spelled out
\* for a project.path that does not end in a separator
SaveDirIsLogs ==
    /\ Norm(result.save_dir) = LogsUnder(config.path)
    /\ ~EndsWithSep(config.path) => result.save_dir = config.path \o "/logs"

Variants == {"Disabled", "TensorboardLogger", "ExperimentLogger"}

C2_DisabledNoEffect ==
    (Called /\ config.logger \in {PyNone, PyBool(FALSE)}) =>
        /\ result = Disabled
        /\ events = <<>>
        /\ dirs = dirsBefore

C2_Witness ==
    /\ Called
    /\ config.logger = PyBool(FALSE)
    /\ result.variant = "Disabled"
    /\ LogsUnder(config.path) \notin dirs

\* C3: a call with project.logger == "wandb" that returns leaves
\* <project.path>/logs existing and every directory that existed before in
\* place, and returns an ExperimentLogger with project = dataset.name,
\* name = dataset.category, one space, model.name, and
\* save_dir = <project.path>/logs.
C3_WandbHandle ==
    (IsWandb(config.logger) /\ result.status = "returned") =>
        LET n == result.name
            c == Len(config.category)
        IN  /\ LogsUnder(config.path) \in dirs
            /\ dirsBefore \subseteq dirs
            /\ result.variant = "ExperimentLogger"
            /\ result.project = config.dsname
            /\ Len(n) = c + 1 + Len(config.model)
            /\ SubSeq(n, 1, c) = config.category
            /\ SubSeq(n, c + 1, c + 1) = " "
            /\ SubSeq(n, c + 2, Len(n)) = config.model
            /\ SaveDirIsLogs

C3_Witness ==
    /\ IsWandb(config.logger)
    /\ result.status = "returned"
    /\ config.path = "/r/"
    /\ LogsUnder(config.path) \notin dirsBefore
    /\ LogsUnder(config.path) \in dirs

\* C4: a call with project.logger == "tensorboard" that returns gives a
\* TensorboardLogger named "Tensorboard Logs" with
\* save_dir = <project.path>/logs, and get_logger creates no directory.
C4_TensorboardHandle ==
    (IsTensorboard(config.logger) /\ result.status = "returned") =>
        /\ result.variant = "TensorboardLogger"
        /\ result.name = "Tensorboard Logs"
        /\ SaveDirIsLogs
        /\ dirs = dirsBefore
        /\ events = <<"AnomalibTensorBoardLogger">>

C4_Witness ==
    /\ IsTensorboard(config.logger)
    /\ result.status = "returned"
    /\ LogsUnder(config.path) \notin dirs

\* C5: a call whose project.logger is a string other than "tensorboard" and
\* "wandb" raises UnknownLogger, returns no handle, and the message holds
\* the offending value and both backend names.
C5_UnknownLogger ==
    (Called /\ config.logger.t = "str"
            /\ config.logger.v \notin {"tensorboard", "wandb"}) =>
        /\ result.status = "raised"
        /\ result.variant = ""
        /\ result.exc = "UnknownLogger"
        /\ Contains(result.msg, config.logger.v)
        /\ Contains(result.msg, "tensorboard")
        /\ Contains(result.msg, "wandb")

C5_Witness ==
    /\ Called
    /\ config.logger = PyStr("Tensorboard")
    /\ result.exc = "UnknownLogger"

\* C6: a wandb call right after a wandb call that returned, with the same
\* project.path, returns too, leaves the filesystem as it found it, and
\* gives the same save_dir; with the same config it gives the same handle.
C6_SecondWandbCall ==
    [][(/\ IsWandb(config.logger)
        /\ result.status = "returned"
        /\ IsWandb(config'.logger)
        /\ config'.path = config.path)
       => (/\ result'.status = "returned"
           /\ dirs' = dirs
           /\ LogsUnder(config.path) \in dirs'
           /\ result'.save_dir = result.save_dir
           /\ (config' = config => result' = result))]_vars

\* a wandb call that returned after finding its logs directory, which no
\* initial filesystem holds, already made by an earlier call
C6_Witness ==
    /\ IsWandb(config.logger)
    /\ result.status = "returned"
    /\ LogsUnder(config.path) \in dirsBefore
    /\ \A fs \in InitialDirs : LogsUnder(config.path) \notin fs

\* C7 as stated: <p>/logs has been created by get_logger only if some call
\* had project.logger == "wandb" and project.path == p, and a call on
\* another branch never changes the filesystem.
C7_CreatedOnlyForOwnPath ==
    /\ \A p \in Paths : LogsUnder(p) \in created => Norm(p) \in wandbPaths
    /\ (Called /\ ~IsWandb(config.logger)) => dirs = dirsBefore

\* C7 amended: a directory has been created by get_logger only if some call
\* had project.logger == "wandb" and the directory is that call's
\* <project.path>/logs or lies above it, and a call on another branch never
\* changes the filesystem.
C7_CreatedOnlyByWandb ==
    /\ \A d \in created :
           \E q \in wandbPaths : d \in SelfAndAncestors(LogsUnder(q))
    /\ (Called /\ ~IsWandb(config.logger)) => dirs = dirsBefore

C7_Witness ==
    /\ Called
    /\ ~IsWandb(config.logger)
    /\ "/r/logs" \in created
    /\ "/r" \notin wandbPaths

\* C8: every call whose project.logger is neither false nor "tensorboard"
\* ends in a ValueError.
C8_ValueError ==
    (Called /\ config.logger # PyBool(FALSE) /\ ~IsTensorboard(config.logger)) =>
        /\ result.status = "raised"
        /\ IsInstance(result.exc, "ValueError")

\* C9: a call with project.logger == true returns an enabled handle.
C9_TrueEnables ==
    (Called /\ config.logger = PyBool(TRUE)) =>
        /\ result.status = "returned"
        /\ result.variant \in {"TensorboardLogger", "ExperimentLogger"}

\* C10: on the wandb branch a failing directory creation raises its own
\* error with nothing created and the backend constructor never invoked; a
\* failing constructor raises its own error after the directory was made,
\* and the directory stays; neither is retried nor turned into
\* UnknownLogger, and no handle is returned.
C10_WandbFailures ==
    (Called /\ IsWandb(config.logger)) =>
        LET logdir == LogsUnder(config.path)
            mkdirFails == ~writable /\ logdir \notin dirsBefore
        IN  /\ mkdirFails =>
                /\ result = Raised("PermissionError", "")
                /\ events = <<"makedirs">>
                /\ dirs = dirsBefore
            /\ (~mkdirFails /\ "wandb" \in broken) =>
                /\ result = Raised("BackendError", "")
                /\ events = <<"makedirs", "AnomalibWandbLogger">>
                /\ logdir \in dirs
                /\ dirsBefore \subseteq dirs
            /\ result.status = "raised" =>
                /\ mkdirFails \/ "wandb" \in broken
                /\ ~IsInstance(result.exc, "UnknownLogger")
                /\ result.variant = ""

C10_Witness ==
    /\ IsWandb(config.logger)
    /\ result = Raised("BackendError", "")
    /\ LogsUnder(config.path) \notin dirsBefore
    /\ LogsUnder(config.path) \in dirs

===========================================================================
